---- MODULE Spec2Model ----
(***************************************************************************)
(* State-machine model of phy's cluster-review Wizard                      *)
(* (src/phy/cluster/manual/wizard.py).                                     *)
(*                                                                         *)
(* A wizard object is the record of its fields; every method is an         *)
(* operator from such a record to the record after the call.  A Python     *)
(* exception (failed assert, RuntimeError, IndexError, ValueError,         *)
(* TypeError) stops the method where it is raised: the record keeps the    *)
(* assignments made so far and its field err becomes TRUE.                 *)
(***************************************************************************)
EXTENDS Integers, Sequences, FiniteSets

(***************************************************************************)
(* Bounds of the model.                                                    *)
(***************************************************************************)
\* cluster ids of the initial clustering are drawn from 1..InitClusters
InitClusters == 3
\* ids that clustering actions may create: InitClusters+1 .. InitClusters+NewClusters
NewClusters == 2
\* an update deletes at most MaxSelected clusters
MaxSelected == 2
\* the session sends at most MaxUpdates updates that are no undo and no redo
MaxUpdates == 1
\* ... and at most MaxUpdatesTwice in the sessions of SpecTwice
MaxUpdatesTwice == 2

MaxId == InitClusters + NewClusters
Ids == 1 .. MaxId

\* Python's None, for a cluster id
None == 0
\* Python's None, for the argument n_max of a ranking
NoMax == -1
\* the three review groups; Python's None group is written "unsorted"
Groups == {"unsorted", "good", "ignored"}

\* the scoring functions a caller may register ("none": nothing registered)
QualityFunctions == {"identity", "parity", "constant"}
SimilarityFunctions == {"near", "other"}

VARIABLES
    cluster_groups,   \* Wizard._cluster_groups : dict cluster -> group
    best_list,        \* Wizard._best_list
    match_list,       \* Wizard._match_list
    best,             \* Wizard._best  (None = 0)
    match,            \* Wizard._match (None = 0)
    history,          \* Wizard._history : the snapshots, base item first
    index,            \* Wizard._history : the cursor, 0-based
    quality,          \* Wizard._quality
    similarity,       \* Wizard._similarity
    raised,           \* the last call ended with an exception
    next_id,          \* the clustering's next unused cluster id
    undo_stack,       \* the command stack of the clustering: the actions done
    undo_pos,         \* the number of actions of undo_stack currently applied
    updates_left,     \* the updates, undo and redo apart, the session may still send
    last_op           \* the last call: its name and its arguments (a cluster,
                      \* an update, the n_max of a ranking query)

vars == <<cluster_groups, best_list, match_list, best, match, history, index,
          quality, similarity, raised, next_id, undo_stack, undo_pos,
          updates_left, last_op>>

(***************************************************************************)
(* Sequences as Python lists.                                              *)
(***************************************************************************)
Range(s) == {s[i] : i \in 1 .. Len(s)}

Contains(s, x) == \E i \in 1 .. Len(s) : s[i] = x

\* list.index(x), 1-based; only used when x is in s
IndexOf(s, x) == CHOOSE i \in 1 .. Len(s) : s[i] = x /\ \A j \in 1 .. (i - 1) : s[j] # x

\* list.remove(x): drops the first occurrence
Remove(s, x) ==
    LET i == IndexOf(s, x)
    IN  SubSeq(s, 1, i - 1) \o SubSeq(s, i + 1, Len(s))

\* list.insert(position, x) with a 0-based position
Insert(s, position, x) ==
    LET p == IF position > Len(s) THEN Len(s) ELSE position
    IN  SubSeq(s, 1, p) \o <<x>> \o SubSeq(s, p + 1, Len(s))

\* s[::-1]
Reverse(s) == [i \in 1 .. Len(s) |-> s[Len(s) + 1 - i]]

\* sorted(set): ascending
RECURSIVE Sorted(_)
Sorted(S) ==
    IF S = {} THEN <<>>
    ELSE LET m == CHOOSE x \in S : \A y \in S : x <= y
         IN  <<m>> \o Sorted(S \ {m})

\* dict with one key removed / set
DictDel(d, k) == [x \in (DOMAIN d) \ {k} |-> d[x]]
DictSet(d, k, v) == [x \in (DOMAIN d) \cup {k} |-> IF x = k THEN v ELSE d[x]]

(***************************************************************************)
(* Scoring functions.                                                      *)
(***************************************************************************)
QualityValue(f, cluster) ==
    IF f = "identity" THEN cluster
    ELSE IF f = "parity" THEN cluster % 2
    ELSE 0

SimilarityValue(f, cluster, other) ==
    IF f = "near"
    THEN (IF cluster < other THEN cluster - other ELSE other - cluster)
    ELSE other

(***************************************************************************)
(* Utility functions.                                                      *)
(***************************************************************************)
\* sorted(seq, key=itemgetter(1), reverse=True) is stable: pairs of equal
\* value keep the order they have in seq.
RECURSIVE SortedByValue(_)
SortedByValue(seq) ==
    IF seq = <<>> THEN <<>>
    ELSE LET n == Len(seq)
             x == seq[n]
             front == SortedByValue(SubSeq(seq, 1, n - 1))
             k == Cardinality({i \in 1 .. Len(front) : front[i][2] >= x[2]})
         IN  SubSeq(front, 1, k) \o <<x>> \o SubSeq(front, k + 1, Len(front))

\* _argsort without lines 25-28: n_max is not applied
_argsort_untruncated(seq, n_max) ==
    LET s == SortedByValue(seq)
    IN  [i \in 1 .. Len(s) |-> s[i][1]]

\* if n_max in (None, 0): return out; else: return out[:n_max]
_argsort(seq, n_max) ==
    LET s == SortedByValue(seq)
        out == [i \in 1 .. Len(s) |-> s[i][1]]
    IN  IF n_max \in {NoMax, 0} THEN out
        ELSE SubSeq(out, 1, IF n_max < Len(out) THEN n_max ELSE Len(out))

_best_clusters(clusters, f, n_max) ==
    _argsort([i \in 1 .. Len(clusters) |->
                  <<clusters[i], QualityValue(f, clusters[i])>>], n_max)

\* filter is None at every call of the wizard
_find_first(items) ==
    IF items = <<>> THEN None ELSE items[1]

\* [err, val]: err stands for the RuntimeError
_previous(items, current) ==
    IF ~Contains(items, current) THEN [err |-> TRUE, val |-> current]
    ELSE LET i == IndexOf(items, current)
         IN  IF i = 1 THEN [err |-> FALSE, val |-> current]
             ELSE [err |-> FALSE, val |-> _find_first(Reverse(SubSeq(items, 1, i - 1)))]

\* _next going back to the first item after the last one
_next_wrapping(items, current) ==
    IF items = <<>> THEN [err |-> FALSE, val |-> current]
    ELSE IF ~Contains(items, current) THEN [err |-> TRUE, val |-> current]
    ELSE LET i == IndexOf(items, current)
         IN  IF i = Len(items) THEN [err |-> FALSE, val |-> items[1]]
             ELSE [err |-> FALSE, val |-> _find_first(SubSeq(items, i + 1, Len(items)))]

_next(items, current) ==
    IF items = <<>> THEN [err |-> FALSE, val |-> current]
    ELSE IF ~Contains(items, current) THEN [err |-> TRUE, val |-> current]
    ELSE LET i == IndexOf(items, current)
         IN  IF i = Len(items) THEN [err |-> FALSE, val |-> current]
             ELSE [err |-> FALSE, val |-> _find_first(SubSeq(items, i + 1, Len(items)))]

(***************************************************************************)
(* History (class of phy/cluster/manual/_utils.py), as the design document *)
(* describes it: a sequence of snapshots that is only appended to, and a   *)
(* cursor.  The snapshots are pairs <<best, match>>; the base item         *)
(* <<None, None>> of Wizard.__init__ is the first one.                     *)
(***************************************************************************)
\* History.current_item
current_item(w) == w.history[w.index + 1]

\* History.is_last: the cursor is on the last snapshot
is_last(w) == w.index = Len(w.history) - 1

\* History.is_first: the cursor is on the first snapshot pushed after the base item
is_first(w) == w.index = 1

\* History.add: the snapshot is appended and becomes the current one
history_add(w, item) ==
    [w EXCEPT !.history = Append(w.history, item),
              !.index = Len(w.history)]

\* History.undo: one step back, staying on the base item
history_undo(w) ==
    IF w.index <= 0 THEN w ELSE [w EXCEPT !.index = w.index - 1]

\* History.redo: one step forward, staying on the last snapshot
history_redo(w) ==
    IF w.index >= Len(w.history) - 1 THEN w ELSE [w EXCEPT !.index = w.index + 1]

(***************************************************************************)
(* Wizard: internal methods.                                               *)
(***************************************************************************)
\* an exception leaves the object as it is at that point
Raise(w) == [w EXCEPT !.err = TRUE]

_group(w, cluster) ==
    IF cluster \in DOMAIN w.cluster_groups THEN w.cluster_groups[cluster]
    ELSE "unsorted"

_in_groups(w, items, groups) ==
    LET keep(item) == _group(w, item) \in groups
    IN  SelectSeq(items, keep)

cluster_ids(w) == Sorted(DOMAIN w.cluster_groups)

\* TRUE when every assert of _check passes
_check(w) ==
    LET clusters == Range(cluster_ids(w))
    IN  /\ Range(w.best_list) \subseteq clusters
        /\ Range(w.match_list) \subseteq clusters
        /\ (w.best # None /\ Len(w.best_list) >= 1) => Contains(w.best_list, w.best)
        /\ (w.match # None /\ Len(w.match_list) >= 1) => Contains(w.match_list, w.match)
        /\ (w.best # None /\ w.match # None) => w.best # w.match

\* _sort taking the branch of line 141 whatever the flag
_sort_always_mixed(w, items, mix_good_unsorted) ==
    _in_groups(w, items, {"unsorted", "good"}) \o _in_groups(w, items, {"ignored"})

\* _sort taking the branch of lines 143-146 whatever the flag
_sort_never_mixed(w, items, mix_good_unsorted) ==
    _in_groups(w, items, {"unsorted"}) \o _in_groups(w, items, {"good"})
        \o _in_groups(w, items, {"ignored"})

_sort(w, items, mix_good_unsorted) ==
    IF mix_good_unsorted
    THEN _in_groups(w, items, {"unsorted", "good"}) \o _in_groups(w, items, {"ignored"})
    ELSE _in_groups(w, items, {"unsorted"}) \o _in_groups(w, items, {"good"})
             \o _in_groups(w, items, {"ignored"})

(***************************************************************************)
(* Wizard: core methods.  A ranking query returns [err, val]; err stands   *)
(* for the TypeError of calling the unregistered function None, or for     *)
(* the IndexError of best_clusters(1)[0] on an empty clustering.           *)
(*                                                                         *)
(* A method of several statements is written as one operator per           *)
(* statement, each taking the object its predecessor returns.              *)
(***************************************************************************)
best_clusters(w, n_max) ==
    IF w.quality = "none" /\ cluster_ids(w) # <<>>
    THEN [err |-> TRUE, val |-> <<>>]
    ELSE [err |-> FALSE,
          val |-> _sort(w, _best_clusters(cluster_ids(w), w.quality, n_max), FALSE)]

\* the clusters other than `cluster`, by decreasing similarity to it
most_similar_to(w, cluster, n_max) ==
    LET others == SelectSeq(cluster_ids(w), LAMBDA other : other # cluster)
    IN  IF w.similarity = "none" /\ others # <<>>
        THEN [err |-> TRUE, val |-> <<>>]
        ELSE [err |-> FALSE,
              val |-> _sort(w, _argsort([i \in 1 .. Len(others) |->
                          <<others[i],
                            SimilarityValue(w.similarity, cluster, others[i])>>],
                          n_max), TRUE)]

\* cluster = self.best_clusters(1)[0], with top = self.best_clusters(1)
most_similar_to_top(w, top, n_max) ==
    IF top.err \/ top.val = <<>> THEN [err |-> TRUE, val |-> <<>>]
    ELSE most_similar_to(w, top.val[1], n_max)

most_similar_clusters(w, cluster, n_max) ==
    IF cluster # None THEN most_similar_to(w, cluster, n_max)
    ELSE IF w.best # None THEN most_similar_to(w, w.best, n_max)
    ELSE most_similar_to_top(w, best_clusters(w, 1), n_max)

(***************************************************************************)
(* Wizard: list methods and properties.                                    *)
(***************************************************************************)
\* a best setter that also moves the value to the head of the best list
set_best_to_front(w, value) ==
    IF ~Contains(w.best_list, value) THEN Raise(w)
    ELSE [w EXCEPT !.best = value,
                   !.best_list = <<value>> \o Remove(w.best_list, value)]

\* best.setter: assert value in self._best_list
set_best(w, value) ==
    IF ~Contains(w.best_list, value) THEN Raise(w)
    ELSE [w EXCEPT !.best = value]

\* match.setter: a value other than None must be in self._match_list
set_match(w, value) ==
    IF value # None /\ ~Contains(w.match_list, value) THEN Raise(w)
    ELSE [w EXCEPT !.match = value]

\* self._best_list = clusters; if clusters: self.best = clusters[0]
_set_best_list_to(w, clusters) ==
    IF clusters.err THEN Raise(w)
    ELSE IF clusters.val # <<>>
    THEN set_best([w EXCEPT !.best_list = clusters.val], clusters.val[1])
    ELSE [w EXCEPT !.best_list = clusters.val]

\* _set_best_list(): both arguments are None at its only call
_set_best_list(w) == _set_best_list_to(w, best_clusters(w, NoMax))

\* self._match_list = clusters; if clusters: self.match = clusters[0]
_set_match_list_to(w, clusters) ==
    IF clusters.err THEN Raise(w)
    ELSE IF clusters.val # <<>>
    THEN set_match([w EXCEPT !.match_list = clusters.val], clusters.val[1])
    ELSE [w EXCEPT !.match_list = clusters.val]

\* _set_match_list(cluster): clusters is None at every call
_set_match_list(w, cluster) ==
    _set_match_list_to(w,
        most_similar_clusters(w, IF cluster = None THEN w.best ELSE cluster, NoMax))

n_processed(w) == Len(_in_groups(w, w.best_list, {"good", "ignored"}))

n_clusters(w) == Len(cluster_ids(w))

(***************************************************************************)
(* Wizard: panel.  The progress values are read by _repr_html_.            *)
(***************************************************************************)
\* int(100 * value / float(maximum - 1)), on values that are not negative
_progress(value, maximum) ==
    IF maximum <= 1 THEN 1 ELSE (100 * value) \div (maximum - 1)

\* [err, val]: err stands for the ValueError of best_list.index(best)
_best_progress(w) ==
    IF ~Contains(w.best_list, w.best) THEN [err |-> TRUE, val |-> 0]
    ELSE [err |-> FALSE,
          val |-> _progress(IndexOf(w.best_list, w.best) - 1, Len(w.best_list))]

_match_progress(w) == _progress(n_processed(w), n_clusters(w))

(***************************************************************************)
(* Wizard: navigation.                                                     *)
(***************************************************************************)
_has_finished(w) == w.best # None /\ Len(w.best_list) <= 1

\* the match list left as it is when best moves
rebuild_match_list_never(w) == w

\* if self.match is not None: self._set_match_list()
rebuild_match_list(w) ==
    IF w.err THEN w
    ELSE IF w.match # None THEN _set_match_list(w, None)
    ELSE w

\* self.best = <the cluster found>, then the match list
move_best(w, found) ==
    IF found.err THEN Raise(w) ELSE rebuild_match_list(set_best(w, found.val))

\* next_best without the test of lines 283-284
next_best_when_finished(w) == move_best(w, _next(w.best_list, w.best))

next_best(w) ==
    IF _has_finished(w) THEN w
    ELSE move_best(w, _next(w.best_list, w.best))

previous_best(w) ==
    IF _has_finished(w) THEN w
    ELSE move_best(w, _previous(w.best_list, w.best))

\* self.match = <the cluster found>
move_match(w, found) ==
    IF found.err THEN Raise(w) ELSE set_match(w, found.val)

\* next_match without the test of lines 304-305
next_match_within_list(w) == move_match(w, _next(w.match_list, w.match))

next_match(w) ==
    IF w.match # None /\ Len(w.match_list) <= 1 THEN next_best(w)
    ELSE move_match(w, _next(w.match_list, w.match))

previous_match(w) == move_match(w, _previous(w.match_list, w.match))

next(w) ==
    IF w.match = None THEN next_best(w) ELSE next_match(w)

previous(w) ==
    IF w.match = None THEN previous_best(w) ELSE previous_match(w)

\* self._best_list[0] and self._match_list[0] raise IndexError on an empty list
first(w) ==
    IF w.match = None
    THEN (IF w.best_list = <<>> THEN Raise(w) ELSE set_best(w, w.best_list[1]))
    ELSE (IF w.match_list = <<>> THEN Raise(w) ELSE set_match(w, w.match_list[1]))

last(w) ==
    IF w.match = None
    THEN (IF w.best_list = <<>> THEN Raise(w)
          ELSE set_best(w, w.best_list[Len(w.best_list)]))
    ELSE (IF w.match_list = <<>> THEN Raise(w)
          ELSE set_match(w, w.match_list[Len(w.match_list)]))

(***************************************************************************)
(* Wizard: control.                                                        *)
(***************************************************************************)
start(w) == _set_best_list(w)

\* self._check(): a failed assert raises
checked(w) ==
    IF w.err THEN w
    ELSE IF _check(w) THEN w ELSE Raise(w)

\* self._set_match_list(cluster), after self.best = cluster
pin_match_list(w, cluster) ==
    IF w.err THEN w ELSE _set_match_list(w, cluster)

\* pin returning as soon as best is the cluster, pinned or not
pin_cluster_if_moved(w, cluster) ==
    IF w.best = cluster THEN w
    ELSE checked(pin_match_list(set_best(w, cluster), cluster))

\* pin, from its second test on; cluster is not None unless self.best is
pin_cluster(w, cluster) ==
    IF w.match # None /\ w.best = cluster THEN w
    ELSE checked(pin_match_list(set_best(w, cluster), cluster))

pin(w, cluster) ==
    IF _has_finished(w) THEN w
    ELSE pin_cluster(w, IF cluster = None THEN w.best ELSE cluster)

unpin(w) ==
    IF w.match # None
    THEN [w EXCEPT !.match = None, !.match_list = <<>>]
    ELSE w

(***************************************************************************)
(* Wizard: actions.  An update `up` is a record with the fields            *)
(* description ("none", "merge", "assign", "metadata_group"), added,       *)
(* deleted, descendants (pairs <<parent, child>>), metadata_changed,       *)
(* metadata_value and history ("none", "undo", "redo").                    *)
(***************************************************************************)
\* _delete without lines 381-382: a deleted best stays selected
_delete_from_keeping_best(w, clu, bl, ml) ==
    [w EXCEPT !.cluster_groups = DictDel(w.cluster_groups, clu),
              !.best_list = bl,
              !.match_list = ml,
              !.match = IF clu = w.match THEN None ELSE w.match]

\* one turn of the loop of _delete, bl and ml being the lists without clu
_delete_from(w, clu, bl, ml) ==
    [w EXCEPT !.cluster_groups = DictDel(w.cluster_groups, clu),
              !.best_list = bl,
              !.match_list = ml,
              !.best = IF clu = w.best
                       THEN (IF bl # <<>> THEN bl[1] ELSE None)
                       ELSE w.best,
              !.match = IF clu = w.match THEN None ELSE w.match]

\* _delete without lines 379-380: the deleted id stays in the match list
_delete_one_keeping_match_list(w, clu) ==
    _delete_from(w, clu,
        IF Contains(w.best_list, clu) THEN Remove(w.best_list, clu) ELSE w.best_list,
        w.match_list)

_delete_one(w, clu) ==
    _delete_from(w, clu,
        IF Contains(w.best_list, clu) THEN Remove(w.best_list, clu) ELSE w.best_list,
        IF Contains(w.match_list, clu) THEN Remove(w.match_list, clu)
        ELSE w.match_list)

RECURSIVE _delete(_, _)
_delete(w, clusters) ==
    IF clusters = <<>> THEN w
    ELSE _delete(_delete_one(w, Head(clusters)), Tail(clusters))

\* _add without lines 392-396: the new cluster enters no best list
_add_outside_best_list(w, clu, group, position) ==
    IF \/ clu \in DOMAIN w.cluster_groups
       \/ Contains(w.best_list, clu)
       \/ Contains(w.match_list, clu)
    THEN Raise(w)
    ELSE [w EXCEPT !.cluster_groups = DictSet(w.cluster_groups, clu, group),
                   !.match_list = IF w.match # None
                                  THEN Append(w.match_list, clu)
                                  ELSE w.match_list]

\* _add([clu], group, position); position is 0-based, -1 stands for None
_add(w, clu, group, position) ==
    IF \/ clu \in DOMAIN w.cluster_groups
       \/ Contains(w.best_list, clu)
       \/ Contains(w.match_list, clu)
    THEN Raise(w)
    ELSE [w EXCEPT !.cluster_groups = DictSet(w.cluster_groups, clu, group),
                   !.best_list = IF w.best # None
                                 THEN (IF position # -1
                                       THEN Insert(w.best_list, position, clu)
                                       ELSE Append(w.best_list, clu))
                                 ELSE w.best_list,
                   !.match_list = IF w.match # None
                                  THEN Append(w.match_list, clu)
                                  ELSE w.match_list]

\* the child is added at the parent's position; list.index raises ValueError
\* when the parent is not in a non-empty best list
_add_at_parent(w, clu, parent) ==
    IF w.best_list # <<>> /\ ~Contains(w.best_list, parent) THEN Raise(w)
    ELSE _add(w, clu, _group(w, parent),
              IF w.best_list # <<>> THEN IndexOf(w.best_list, parent) - 1 ELSE -1)

\* the child placed after its last parent instead of parents[0]
_add_child_of_last_parent(w, clu, parents) ==
    IF parents = <<>> THEN Raise(w)
    ELSE _add_at_parent(w, clu, parents[Len(parents)][1])

\* parent = parents[0], which raises IndexError without a parent
_add_child_of(w, clu, parents) ==
    IF parents = <<>> THEN Raise(w)
    ELSE _add_at_parent(w, clu, parents[1][1])

\* one turn of the loop over up.added in _update_state
_add_child(w, up, clu) ==
    _add_child_of(w, clu, SelectSeq(up.descendants, LAMBDA d : d[2] = clu))

RECURSIVE _add_children(_, _, _)
_add_children(w, up, added) ==
    IF added = <<>> \/ w.err THEN w
    ELSE _add_children(_add_child(w, up, Head(added)), up, Tail(added))

\* Update the cluster group.
_update_group(w, up) ==
    IF up.description = "metadata_group"
    THEN [w EXCEPT !.cluster_groups =
              DictSet(w.cluster_groups, up.metadata_changed[1], up.metadata_value)]
    ELSE w

\* Delete old clusters.
_delete_old(w, up) ==
    IF w.err THEN w ELSE _delete(w, up.deleted)

_update_state(w, up) ==
    _delete_old(_add_children(_update_group(w, up), up, up.added), up)

\* Select the history best.
_select_history_best(w) ==
    IF current_item(w)[1] # None /\ w.best_list # <<>>
    THEN set_best(w, current_item(w)[1])
    ELSE w

\* Ensure the current best cluster is valid.
_select_valid_best(w) ==
    IF w.err THEN w
    ELSE IF w.best # None /\ ~Contains(w.best_list, w.best)
    THEN (IF w.best_list = <<>> THEN Raise(w) ELSE set_best(w, w.best_list[1]))
    ELSE w

\* assert match in self._match_list; self.match = match
_select_match(w, value) ==
    IF w.err THEN w
    ELSE IF ~Contains(w.match_list, value) THEN Raise(w)
    ELSE set_match(w, value)

\* Select the history match.
_select_history_match(w) ==
    IF w.err THEN w
    ELSE IF current_item(w)[2] # None /\ w.match_list # <<>>
    THEN _select_match(_set_match_list(w, None), current_item(w)[2])
    ELSE w

\* Ensure the current match is valid.
_select_valid_match(w) ==
    IF w.err THEN w
    ELSE IF w.match # None /\ ~Contains(w.match_list, w.match)
    THEN (IF w.match_list = <<>> THEN Raise(w) ELSE set_match(w, w.match_list[1]))
    ELSE w

_select_history(w) ==
    _select_valid_match(_select_history_match(
        _select_valid_best(_select_history_best(w))))

\* the branches of _update_selection, before its _check
_new_selection(w, up) ==
    IF up.history = "undo"
    THEN _select_history(history_undo(IF ~is_last(w) THEN history_undo(w) ELSE w))
    ELSE IF up.history = "redo"
    THEN _select_history(history_redo(IF ~is_first(w) THEN history_redo(w) ELSE w))
    ELSE IF up.description \in {"merge", "assign"}
    THEN (IF up.added = <<>> THEN Raise(w) ELSE pin(w, up.added[1]))
    ELSE IF up.description = "metadata_group"
    THEN (IF up.metadata_changed[1] = w.best THEN next_best(w)
          ELSE IF up.metadata_changed[1] = w.match THEN next_match(w)
          ELSE w)
    ELSE w

_update_selection(w, up) == checked(_new_selection(w, up))

\* the degraded path of on_cluster pushing a snapshot and selecting nothing
on_cluster_unpinned_saving(w, up) ==
    IF w.err THEN w
    ELSE IF up.history # "none" THEN w
    ELSE history_add(w, <<w.best, w.match>>)

\* on_cluster while the best list or the match list is empty
on_cluster_unpinned(w, up) ==
    IF w.err THEN w
    ELSE IF w.best_list # <<>> THEN _update_selection(w, up)
    ELSE w

\* Save current selection if not undo or redo.
on_cluster_save(w, up) ==
    IF w.err THEN w
    ELSE IF up.history = "none" THEN history_add(w, <<w.best, w.match>>)
    ELSE w

on_cluster_select(w, up) ==
    IF w.err THEN w ELSE _update_selection(w, up)

on_cluster(w, up) ==
    IF _has_finished(w) THEN w
    ELSE IF w.best_list = <<>> \/ w.match_list = <<>>
    THEN on_cluster_unpinned(_update_state(w, up), up)
    ELSE on_cluster_save(
             on_cluster_select(_update_state(on_cluster_save(w, up), up), up), up)

(***************************************************************************)
(* The clustering session around the wizard: it registers the scoring      *)
(* functions, calls the navigation and control methods, and sends          *)
(* on_cluster the update of every clustering action, of every undo and of  *)
(* every redo of its command stack.                                        *)
(***************************************************************************)
\* the wizard object in the current state
W == [cluster_groups |-> cluster_groups, best_list |-> best_list,
      match_list |-> match_list, best |-> best, match |-> match,
      history |-> history, index |-> index,
      quality |-> quality, similarity |-> similarity, err |-> FALSE]

NoUpdate == [description |-> "none", added |-> <<>>, deleted |-> <<>>,
             descendants |-> <<>>, metadata_changed |-> <<>>,
             metadata_value |-> "unsorted", history |-> "none"]

\* the lists of 1..k distinct clusters of S
Selections(S, k) ==
    {s \in UNION {[1 .. n -> S] : n \in 1 .. k} :
        \A i, j \in 1 .. Len(s) : i # j => s[i] # s[j]}

\* every selected cluster is a parent of every new cluster
Descendants(parents, children) ==
    [i \in 1 .. (Len(parents) * Len(children)) |->
        <<parents[((i - 1) % Len(parents)) + 1],
          children[((i - 1) \div Len(parents)) + 1]>>]

MergeUpdate(parents, child) ==
    [NoUpdate EXCEPT !.description = "merge", !.added = <<child>>,
                     !.deleted = parents,
                     !.descendants = Descendants(parents, <<child>>)]

AssignUpdate(parents, children) ==
    [NoUpdate EXCEPT !.description = "assign", !.added = children,
                     !.deleted = parents,
                     !.descendants = Descendants(parents, children)]

MetadataUpdate(cluster, group) ==
    [NoUpdate EXCEPT !.description = "metadata_group",
                     !.metadata_changed = <<cluster>>,
                     !.metadata_value = group]

DeleteUpdate(clusters) == [NoUpdate EXCEPT !.deleted = clusters]

\* the update that undoes the action `entry` of the command stack
UndoUpdate(entry) ==
    LET up == entry.up
    IN  IF up.description = "metadata_group"
        THEN [up EXCEPT !.metadata_value = entry.old_value, !.history = "undo"]
        ELSE [up EXCEPT !.added = up.deleted, !.deleted = up.added,
                        !.descendants = [i \in 1 .. Len(up.descendants) |->
                            <<up.descendants[i][2], up.descendants[i][1]>>],
                        !.history = "undo"]

RedoUpdate(entry) == [entry.up EXCEPT !.history = "redo"]

\* the call `name` took the wizard from W to w2
Called(name, arg, up, w2) ==
    /\ cluster_groups' = w2.cluster_groups
    /\ best_list' = w2.best_list
    /\ match_list' = w2.match_list
    /\ best' = w2.best
    /\ match' = w2.match
    /\ history' = w2.history
    /\ index' = w2.index
    /\ quality' = w2.quality
    /\ similarity' = w2.similarity
    /\ raised' = w2.err
    /\ last_op' = [name |-> name, arg |-> arg, up |-> up, n_max |-> NoMax]

Session == UNCHANGED <<next_id, undo_stack, undo_pos, updates_left>>

\* the fields of a wizard just constructed on the dictionary cluster_groups
Constructed ==
    /\ best_list = <<>>
    /\ match_list = <<>>
    /\ best = None
    /\ match = None
    /\ history = << <<None, None>> >>
    /\ index = 0
    /\ raised = FALSE
    /\ next_id = InitClusters + 1
    /\ undo_stack = <<>>
    /\ undo_pos = 0
    /\ last_op = [name |-> "init", arg |-> None, up |-> NoUpdate, n_max |-> NoMax]

\* a session on unsorted clusters, with both scoring functions registered
Init ==
    /\ cluster_groups \in
           {[c \in S |-> "unsorted"] : S \in SUBSET (1 .. InitClusters)}
    /\ quality = "identity"
    /\ similarity = "near"
    /\ updates_left = MaxUpdates
    /\ Constructed

\* a session on clusters of any groups, with both scoring functions registered
InitGrouped ==
    /\ cluster_groups \in UNION {[S -> Groups] : S \in SUBSET (1 .. InitClusters)}
    /\ quality = "identity"
    /\ similarity = "near"
    /\ updates_left = MaxUpdates
    /\ Constructed

\* a session on unsorted clusters that may send a second update
InitTwice ==
    /\ cluster_groups \in
           {[c \in S |-> "unsorted"] : S \in SUBSET (1 .. InitClusters)}
    /\ quality = "identity"
    /\ similarity = "near"
    /\ updates_left = MaxUpdatesTwice
    /\ Constructed

\* any clustering with any groups, and no scoring function registered yet
InitRanking ==
    /\ cluster_groups \in UNION {[S -> Groups] : S \in SUBSET (1 .. InitClusters)}
    /\ quality = "none"
    /\ similarity = "none"
    /\ updates_left = MaxUpdates
    /\ Constructed

SetQualityFunction ==
    \E f \in QualityFunctions :
        /\ Called("set_quality_function", None, NoUpdate, [W EXCEPT !.quality = f])
        /\ Session

SetSimilarityFunction ==
    \E f \in SimilarityFunctions :
        /\ Called("set_similarity_function", None, NoUpdate,
                  [W EXCEPT !.similarity = f])
        /\ Session

\* a ranking query: it leaves the wizard as it is, and returns or raises
Queried(name, cluster, n_max, ranking) ==
    /\ UNCHANGED <<cluster_groups, best_list, match_list, best, match, history,
                   index, quality, similarity>>
    /\ raised' = ranking.err
    /\ last_op' = [name |-> name, arg |-> cluster, up |-> NoUpdate, n_max |-> n_max]

\* best_clusters(n_max), no quality passed
BestClusters ==
    \E n_max \in {NoMax} \cup (0 .. InitClusters) :
        /\ Queried("best_clusters", None, n_max, best_clusters(W, n_max))
        /\ Session

\* most_similar_clusters(cluster, n_max), no similarity passed
MostSimilarClusters ==
    \E cluster \in {None} \cup (1 .. InitClusters) :
        \E n_max \in {NoMax} \cup (0 .. InitClusters) :
            /\ Queried("most_similar_clusters", cluster, n_max,
                       most_similar_clusters(W, cluster, n_max))
            /\ Session

\* _repr_html_(): it reads both progress values and assigns no field
ReprHtml == Queried("_repr_html_", None, NoMax, _best_progress(W)) /\ Session

Start == Called("start", None, NoUpdate, start(W)) /\ Session

Pin == \E c \in Ids \cup {None} : Called("pin", c, NoUpdate, pin(W, c)) /\ Session

\* pin() without argument
PinBest == Called("pin", None, NoUpdate, pin(W, None)) /\ Session

Unpin == Called("unpin", None, NoUpdate, unpin(W)) /\ Session

NextBest == Called("next_best", None, NoUpdate, next_best(W)) /\ Session

PreviousBest == Called("previous_best", None, NoUpdate, previous_best(W)) /\ Session

NextMatch == Called("next_match", None, NoUpdate, next_match(W)) /\ Session

PreviousMatch == Called("previous_match", None, NoUpdate, previous_match(W)) /\ Session

NextProposition == Called("next", None, NoUpdate, next(W)) /\ Session

PreviousProposition == Called("previous", None, NoUpdate, previous(W)) /\ Session

First == Called("first", None, NoUpdate, first(W)) /\ Session

Last == Called("last", None, NoUpdate, last(W)) /\ Session

\* the session sends one more update
Update ==
    /\ updates_left > 0
    /\ updates_left' = updates_left - 1

\* a new action drops the undone actions of the command stack
Do(up, old_value) ==
    /\ undo_stack' = Append(SubSeq(undo_stack, 1, undo_pos),
                            [up |-> up, old_value |-> old_value])
    /\ undo_pos' = undo_pos + 1

\* a merge of the selected clusters into a new one
OnClusterMerge ==
    \E parents \in Selections(DOMAIN cluster_groups, MaxSelected) :
        /\ Len(parents) >= 2
        /\ next_id <= MaxId
        /\ Update
        /\ LET up == MergeUpdate(parents, next_id)
           IN  /\ Called("on_cluster", None, up, on_cluster(W, up))
               /\ Do(up, "unsorted")
        /\ next_id' = next_id + 1

\* an assignment of spikes: a whole selection moves to one new cluster, or
\* one cluster is split into two new ones
OnClusterAssign ==
    \E parents \in Selections(DOMAIN cluster_groups, MaxSelected) :
        \E n \in 1 .. 2 :
            /\ n = 2 => Len(parents) = 1
            /\ next_id + n - 1 <= MaxId
            /\ Update
            /\ LET up == AssignUpdate(parents, [i \in 1 .. n |-> next_id + i - 1])
               IN  /\ Called("on_cluster", None, up, on_cluster(W, up))
                   /\ Do(up, "unsorted")
            /\ next_id' = next_id + n

\* an assignment whose parent is a cluster of the clustering that the wizard
\* does not hold: it was constructed on the other clusters only
OnClusterAssignForeign ==
    \E parent \in (1 .. InitClusters) \ DOMAIN cluster_groups :
        /\ next_id <= MaxId
        /\ Update
        /\ LET up == AssignUpdate(<<parent>>, <<next_id>>)
           IN  /\ Called("on_cluster", None, up, on_cluster(W, up))
               /\ Do(up, "unsorted")
        /\ next_id' = next_id + 1

\* a cluster is moved to a group
OnClusterMetadata ==
    \E cluster \in DOMAIN cluster_groups :
        \E group \in Groups :
            /\ Update
            /\ LET up == MetadataUpdate(cluster, group)
               IN  /\ Called("on_cluster", None, up, on_cluster(W, up))
                   /\ Do(up, cluster_groups[cluster])
            /\ UNCHANGED next_id

\* an update without description that only deletes clusters
OnClusterDelete ==
    \E clusters \in Selections(DOMAIN cluster_groups, MaxSelected) :
        /\ Update
        /\ LET up == DeleteUpdate(clusters)
           IN  Called("on_cluster", None, up, on_cluster(W, up))
        /\ UNCHANGED <<next_id, undo_stack, undo_pos>>

OnClusterUndo ==
    /\ undo_pos > 0
    /\ LET up == UndoUpdate(undo_stack[undo_pos])
       IN  Called("on_cluster", None, up, on_cluster(W, up))
    /\ undo_pos' = undo_pos - 1
    /\ UNCHANGED <<next_id, undo_stack, updates_left>>

OnClusterRedo ==
    /\ undo_pos < Len(undo_stack)
    /\ LET up == RedoUpdate(undo_stack[undo_pos + 1])
       IN  Called("on_cluster", None, up, on_cluster(W, up))
    /\ undo_pos' = undo_pos + 1
    /\ UNCHANGED <<next_id, undo_stack, updates_left>>

Navigation ==
    \/ Start
    \/ Pin
    \/ Unpin
    \/ NextBest
    \/ PreviousBest
    \/ NextMatch
    \/ PreviousMatch
    \/ NextProposition
    \/ PreviousProposition
    \/ First
    \/ Last

Next ==
    \/ Navigation
    \/ OnClusterMerge
    \/ OnClusterAssign
    \/ OnClusterMetadata
    \/ OnClusterDelete
    \/ OnClusterUndo
    \/ OnClusterRedo

\* the review session: navigation and the updates of the clustering
Spec == Init /\ [][Next]_vars

NextRanking ==
    \/ SetQualityFunction
    \/ SetSimilarityFunction
    \/ Navigation

\* the rankings: every clustering, grouping and registration, no update
SpecRanking == InitRanking /\ [][NextRanking]_vars

NextGrouped ==
    \/ Start
    \/ Pin
    \/ Unpin
    \/ OnClusterMerge
    \/ OnClusterAssign
    \/ OnClusterUndo
    \/ OnClusterRedo

\* merges and assignments of clusters of any groups, with their undo and redo
SpecGrouped == InitGrouped /\ [][NextGrouped]_vars

NextForeign ==
    \/ Start
    \/ Pin
    \/ Unpin
    \/ NextBest
    \/ OnClusterMerge
    \/ OnClusterAssign
    \/ OnClusterAssignForeign
    \/ OnClusterUndo

\* a wizard constructed on a part of the clustering only
SpecForeign == Init /\ [][NextForeign]_vars

NextTwice ==
    \/ Start
    \/ PinBest
    \/ Unpin
    \/ OnClusterMerge
    \/ OnClusterMetadata
    \/ OnClusterUndo

\* two updates in a row, with their undo and redo
SpecTwice == InitTwice /\ [][NextTwice]_vars

NextQuery ==
    \/ SetQualityFunction
    \/ SetSimilarityFunction
    \/ Start
    \/ BestClusters
    \/ MostSimilarClusters

\* the ranking queries: every clustering, grouping and registration
SpecQuery == InitRanking /\ [][NextQuery]_vars

NextPanel ==
    \/ Start
    \/ NextBest
    \/ PreviousBest
    \/ Last
    \/ OnClusterMetadata
    \/ ReprHtml

\* the panel: clusters of any groups, the walk of the best list, a relabelling
SpecPanel == InitGrouped /\ [][NextPanel]_vars

\* the session has not called next() yet
Reviewing == last_op.name # "next"

\* a session that, once it calls next(), calls nothing else
NextSettling ==
    \/ Reviewing /\ Start
    \/ Reviewing /\ Pin
    \/ Reviewing /\ Unpin
    \/ Reviewing /\ NextBest
    \/ Reviewing /\ OnClusterMerge
    \/ Reviewing /\ OnClusterAssign
    \/ Reviewing /\ OnClusterMetadata
    \/ Reviewing /\ OnClusterDelete
    \/ Reviewing /\ OnClusterUndo
    \/ NextProposition

\* one more next() changes no field of the wizard
Settled ==
    /\ next(W).cluster_groups = cluster_groups
    /\ next(W).best_list = best_list
    /\ next(W).match_list = match_list
    /\ next(W).best = best
    /\ next(W).match = match
    /\ next(W).history = history
    /\ next(W).index = index

\* one more next() changes no variable: ~ENABLED <<NextProposition>>_vars
AtRest ==
    /\ last_op.name = "next"
    /\ Settled
    /\ raised = next(W).err

\* weak fairness of the call of next(), which is WF_vars(NextProposition)
\* with its enabling condition written out: the user keeps calling next()
\* as long as a call changes something
KeepsCallingNext == []<>AtRest \/ []<><<NextProposition>>_vars

\* the review followed by calls of next() only
SpecSettling == Init /\ [][NextSettling]_vars /\ KeepsCallingNext

(***************************************************************************)
(* Properties.                                                             *)
(***************************************************************************)
\* the step taken is a call of on_cluster with an update that is no undo and
\* no redo; the update is last_op'.up
FreshUpdateStep ==
    /\ last_op'.name = "on_cluster"
    /\ last_op'.up.history = "none"

\* the wizard after the step
WAfter == W'

\* start() has built a best list that is not used up
Started == best_list # <<>>

\* C1: after any sequence of public operations, every id of the best list
\* and every id of the match list is a key of the cluster-group map.
C1_ListsWithinClusters ==
    /\ Range(best_list) \subseteq DOMAIN cluster_groups
    /\ Range(match_list) \subseteq DOMAIN cluster_groups

\* an update has deleted clusters while the wizard was pinned, and both
\* lists still hold clusters
C1_Witness ==
    /\ last_op.name = "on_cluster"
    /\ last_op.up.deleted # <<>>
    /\ ~raised
    /\ best_list # <<>>
    /\ match_list # <<>>
    /\ Len(history) > 1

\* C2: after any sequence of public operations, a defined best is in a
\* non-empty best list and a defined match is in a non-empty match list.
C2_SelectionWithinLists ==
    /\ (best # None /\ best_list # <<>>) => Contains(best_list, best)
    /\ (match # None /\ match_list # <<>>) => Contains(match_list, match)

\* an update has deleted the best cluster of a pinned wizard, and a best and
\* a match are selected afterwards
C2_Witness ==
    /\ last_op.name = "on_cluster"
    /\ last_op.up.deleted # <<>>
    /\ Len(history) > 1
    /\ best # None
    /\ match # None
    /\ Len(best_list) > 1
    /\ Len(match_list) > 1

\* C3: after any sequence of public operations, whenever best and match are
\* both defined, best differs from match.
C3_BestDiffersFromMatch ==
    (best # None /\ match # None) => best # match

\* the rank of a group in the best list
GroupRank(group) ==
    IF group = "unsorted" THEN 0 ELSE IF group = "good" THEN 1 ELSE 2

\* C4: for every non-empty cluster set, grouping and quality function, after
\* start() best is the first element of the best list, the best list holds
\* every known cluster, and in it every unsorted id precedes every good id,
\* which precedes every ignored id.
C4_StartRanksByGroup ==
    (last_op.name = "start" /\ quality # "none" /\ DOMAIN cluster_groups # {}) =>
        /\ ~raised
        /\ best_list # <<>>
        /\ best = best_list[1]
        /\ Range(best_list) = DOMAIN cluster_groups
        /\ Len(best_list) = Cardinality(DOMAIN cluster_groups)
        /\ \A i, j \in 1 .. Len(best_list) :
               i < j => GroupRank(cluster_groups[best_list[i]])
                            <= GroupRank(cluster_groups[best_list[j]])

\* start() has ranked three clusters of three groups, the cluster of highest
\* quality being ignored and the one of lowest quality unsorted
C4_Witness ==
    /\ last_op.name = "start"
    /\ quality = "identity"
    /\ DOMAIN cluster_groups = 1 .. 3
    /\ cluster_groups[1] = "unsorted"
    /\ cluster_groups[2] = "good"
    /\ cluster_groups[3] = "ignored"
    /\ best = 1

\* the update that undoes the action just done
UndoOfStep == UndoUpdate(undo_stack'[undo_pos'])

\* C5: in a started state, processing a merge, assign or metadata_group
\* update and then the update that undoes it leaves <<best, match>> as it was
\* before the first update.
C5_UndoRestoresSelection ==
    [][(FreshUpdateStep /\ last_op'.up.description # "none" /\ Started /\ ~raised')
          => /\ on_cluster(WAfter, UndoOfStep).best = best
             /\ on_cluster(WAfter, UndoOfStep).match = match]_vars

\* C6: for every cluster c of the best list, pin(c) followed by unpin() ends
\* with match undefined and the match list empty, the best list being the one
\* before pin(c); unpin() changes neither best nor the best list.
C6_PinThenUnpin ==
    [][(last_op'.name = "pin" /\ Contains(best_list, last_op'.arg))
          => /\ unpin(WAfter).match = None
             /\ unpin(WAfter).match_list = <<>>
             /\ unpin(WAfter).best_list = best_list
             /\ unpin(WAfter).best_list = best_list'
             /\ unpin(WAfter).best = best']_vars

\* C7: when best is the last element of the best list, pinned or not,
\* next_best() changes none of best, match, the best list and the match list.
C7_NextBestAtEndIsNoOp ==
    [][(last_op'.name = "next_best" /\ best_list # <<>>
            /\ best = best_list[Len(best_list)])
          => UNCHANGED <<best, match, best_list, match_list>>]_vars

\* C8: in a started state, after an update without description and history
\* that deletes the current best, the deleted ids are gone from the best list
\* and best is the first element of what remains, or undefined.
C8_DeletedBestIsReplaced ==
    [][(FreshUpdateStep /\ last_op'.up.description = "none" /\ Started
            /\ best \in Range(last_op'.up.deleted))
          => /\ Range(last_op'.up.deleted) \cap Range(best_list') = {}
             /\ best' = IF best_list' = <<>> THEN None ELSE best_list'[1]]_vars

\* C9: in a started state, after a merge or assign update the best is
\* added[0] and the wizard is pinned on it: the match list is
\* most_similar_clusters(added[0]) and match is its first element.
C9_MergePinsAdded ==
    [][(FreshUpdateStep /\ last_op'.up.description \in {"merge", "assign"}
            /\ Started)
          => /\ best' = last_op'.up.added[1]
             /\ match_list' =
                    most_similar_clusters(WAfter, last_op'.up.added[1], NoMax).val
             /\ match' = IF match_list' = <<>> THEN None ELSE match_list'[1]]_vars

\* the element after x in list, x itself when it is the last one
Successor(list, x) ==
    IF IndexOf(list, x) = Len(list) THEN x ELSE list[IndexOf(list, x) + 1]

\* C10: in a started state, a metadata_group update for the current best
\* sets its group and moves best to its successor in the best list; one for
\* the current match moves match as next_match() does.
C10_RelabelAdvances ==
    [][(FreshUpdateStep /\ last_op'.up.description = "metadata_group" /\ Started)
          => /\ last_op'.up.metadata_changed[1] = best
                 => /\ cluster_groups'[best] = last_op'.up.metadata_value
                    /\ best' = Successor(best_list, best)
             /\ (last_op'.up.metadata_changed[1] # best
                    /\ last_op'.up.metadata_changed[1] = match)
                 => IF Len(match_list) <= 1
                    THEN best' = Successor(best_list, best)
                    ELSE /\ best' = best
                         /\ match' = Successor(match_list, match)]_vars

\* the ids of `list` run through the groups unsorted, good, ignored in this
\* order, each group by descending quality
RankedByGroup(list) ==
    \A i, j \in 1 .. Len(list) :
        i < j =>
            /\ GroupRank(_group(W, list[i])) <= GroupRank(_group(W, list[j]))
            /\ _group(W, list[i]) = _group(W, list[j])
                   => QualityValue(quality, list[i]) >= QualityValue(quality, list[j])

\* no id left out of `list` has a higher quality than an id of `list`
HighestQuality(list) ==
    \A c \in Range(list) :
        \A d \in DOMAIN cluster_groups \ Range(list) :
            QualityValue(quality, c) >= QualityValue(quality, d)

\* the ranking that the query best_clusters(n_max) just returned
BestClustersResult == best_clusters(W, last_op.n_max).val

\* C11: with a quality function registered, best_clusters(n_max = 0) and
\* best_clusters(n_max unset) return all n cluster ids; best_clusters(k) with
\* 0 < k < n returns exactly k ids, none of lower quality than an id left
\* out; every result lists the unsorted ids, then the good ids, then the
\* ignored ids, each group by descending quality.
C11_BestClustersRanking ==
    (last_op.name = "best_clusters" /\ quality # "none")
        => /\ ~raised
           /\ Len(BestClustersResult) = Cardinality(Range(BestClustersResult))
           /\ last_op.n_max \in {NoMax, 0}
                  => Range(BestClustersResult) = DOMAIN cluster_groups
           /\ (0 < last_op.n_max /\ last_op.n_max < Cardinality(DOMAIN cluster_groups))
                  => /\ Len(BestClustersResult) = last_op.n_max
                     /\ Range(BestClustersResult) \subseteq DOMAIN cluster_groups
                     /\ HighestQuality(BestClustersResult)
           /\ RankedByGroup(BestClustersResult)

\* best_clusters(2) on three clusters of three groups, the cluster of lowest
\* quality being the unsorted one
C11_Witness ==
    /\ last_op.name = "best_clusters"
    /\ last_op.n_max = 2
    /\ quality = "identity"
    /\ DOMAIN cluster_groups = 1 .. 3
    /\ cluster_groups[1] = "unsorted"
    /\ cluster_groups[2] = "ignored"
    /\ cluster_groups[3] = "good"
    /\ BestClustersResult = <<3, 2>>

MoveNames ==
    {"next", "previous", "next_best", "previous_best", "next_match", "previous_match"}

\* C12: in every reachable state (before start(), reviewing, pinned, after
\* an update deleted the current match, finished) each of next, previous,
\* next_best, previous_best, next_match and previous_match returns without
\* raising, and a move past either end of the list it walks leaves the
\* current element of that list unchanged.
C12_MovesNeverRaise ==
    [][(last_op'.name \in MoveNames)
          => /\ ~raised'
             /\ (last_op'.name = "next_best" /\ best_list # <<>>
                    /\ best = best_list[Len(best_list)]) => best' = best
             /\ (last_op'.name = "previous_best" /\ best_list # <<>>
                    /\ best = best_list[1]) => best' = best
             /\ (last_op'.name = "next_match" /\ Len(match_list) >= 2
                    /\ match = match_list[Len(match_list)]) => match' = match
             /\ (last_op'.name = "previous_match" /\ match_list # <<>>
                    /\ match = match_list[1]) => match' = match]_vars

\* C13: for every cluster set, the empty one included, best_clusters called
\* while no quality function is registered, and most_similar_clusters called
\* while no similarity function is registered, raise an error instead of
\* returning a ranking, and leave the wizard state unchanged.
C13_UnregisteredScoringRaises ==
    [][/\ (last_op'.name = "best_clusters" /\ quality = "none")
             => /\ raised'
                /\ UNCHANGED <<cluster_groups, best_list, match_list, best, match,
                               history, index, quality, similarity>>
       /\ (last_op'.name = "most_similar_clusters" /\ similarity = "none")
             => /\ raised'
                /\ UNCHANGED <<cluster_groups, best_list, match_list, best, match,
                               history, index, quality, similarity>>]_vars

FrameNames ==
    {"pin", "unpin", "next", "previous", "next_best", "previous_best",
     "next_match", "previous_match", "first", "last"}

\* C14: none of pin, unpin, next, previous, next_best, previous_best,
\* next_match, previous_match, first, last changes the cluster-group map or
\* the best list (contents and order); only start() and on_cluster change
\* the best list, and only on_cluster changes the group map.
C14_NavigationKeepsBestList ==
    [][/\ (last_op'.name \in FrameNames) => UNCHANGED <<cluster_groups, best_list>>
       /\ (best_list' # best_list) => last_op'.name \in {"start", "on_cluster"}
       /\ (cluster_groups' # cluster_groups) => last_op'.name = "on_cluster"]_vars

\* pin(c) has moved best away from the head of a best list of three clusters
C14_Witness ==
    /\ last_op.name = "pin"
    /\ ~raised
    /\ Len(best_list) = 3
    /\ best = last_op.arg
    /\ best # best_list[1]
    /\ match # None

\* C15: in every wizard state, Finished included, after on_cluster(up)
\* returns normally every id of up.deleted is absent from the group map,
\* from the best list and from the match list, and every id of up.added is
\* a key of the group map.
C15_UpdateIsApplied ==
    [][(last_op'.name = "on_cluster" /\ ~raised')
          => /\ Range(last_op'.up.deleted)
                    \cap (DOMAIN cluster_groups' \cup Range(best_list')
                              \cup Range(match_list')) = {}
             /\ Range(last_op'.up.added) \subseteq DOMAIN cluster_groups']_vars

\* the first parent of `child` in the order of up.descendants
FirstParent(up, child) ==
    SelectSeq(up.descendants, LAMBDA d : d[2] = child)[1][1]

\* C16: the group stored for a cluster added by on_cluster is the group that
\* the first of its parents, in the order of up.descendants, has when the
\* update is processed; the groups of its other parents have no influence.
C16_ChildTakesGroupOfFirstParent ==
    [][(last_op'.name = "on_cluster")
          => \A i \in 1 .. Len(last_op'.up.added) :
                 (/\ last_op'.up.added[i] \notin DOMAIN cluster_groups
                  /\ last_op'.up.added[i] \in DOMAIN cluster_groups')
                     => cluster_groups'[last_op'.up.added[i]]
                            = _group(W, FirstParent(last_op'.up, last_op'.up.added[i]))]_vars

\* a merge of a good cluster (first parent) with an ignored one gave a good
\* cluster
C16_Witness ==
    /\ last_op.name = "on_cluster"
    /\ last_op.up.description = "merge"
    /\ last_op.up.history = "none"
    /\ last_op.up.added = <<4>>
    /\ last_op.up.deleted = <<2, 1>>
    /\ 3 \in DOMAIN cluster_groups
    /\ 4 \in DOMAIN cluster_groups
    /\ cluster_groups[4] = "good"
    /\ undo_stack # <<>>
    /\ match # None

\* the wizard inside _update_state(up), before and after the k-th cluster of
\* up.added is added
BeforeAdd(up, k) ==
    _add_children(_update_group(W, up), up, SubSeq(up.added, 1, k - 1))

AfterAdd(up, k) == _add_child(BeforeAdd(up, k), up, up.added[k])

\* `a` is `b` after the addition of `clu`, child of `parent`, as C17 has it
AddedAsClaimed(b, a, clu, parent) ==
    /\ (b.best # None /\ Contains(b.best_list, parent))
          => /\ ~a.err
             /\ a.best_list =
                    SubSeq(b.best_list, 1, IndexOf(b.best_list, parent) - 1)
                        \o <<clu>>
                        \o SubSeq(b.best_list, IndexOf(b.best_list, parent),
                                  Len(b.best_list))
    /\ (b.best # None /\ ~Contains(b.best_list, parent))
          => /\ ~a.err
             /\ a.best_list = b.best_list \o <<clu>>
    /\ (b.best = None) => a.best_list = b.best_list
    /\ (b.match # None /\ ~a.err) => a.match_list = b.match_list \o <<clu>>
    /\ (b.match = None) => a.match_list = b.match_list

\* C17: when on_cluster adds a cluster while best is defined, the new id is
\* inserted into the best list at the index its first parent occupies at
\* that moment, and appended at the end when that parent is not in the best
\* list; when match is defined the new id is appended to the match list;
\* when best (resp. match) is undefined the best list (resp. match list) is
\* not changed by the addition.
C17_AddedClusterPosition ==
    [][(last_op'.name = "on_cluster" /\ ~_has_finished(W))
          => \A k \in 1 .. Len(last_op'.up.added) :
                 ~BeforeAdd(last_op'.up, k).err
                     => AddedAsClaimed(BeforeAdd(last_op'.up, k),
                                       AfterAdd(last_op'.up, k),
                                       last_op'.up.added[k],
                                       FirstParent(last_op'.up, last_op'.up.added[k]))]_vars

\* C18: when the best list and the match list are both non-empty and the
\* update carries no history tag, on_cluster appends exactly two snapshots
\* to the history, in this order: the pair (best, match) held before the
\* structural update, then the pair held after the selection update; an
\* update tagged undo or redo appends no snapshot.
C18_TwoSnapshotsPerUpdate ==
    [][(last_op'.name = "on_cluster" /\ best_list # <<>> /\ match_list # <<>>)
          => IF last_op'.up.history = "none"
             THEN history' = history \o << <<best, match>>, <<best', match'>> >>
             ELSE history' = history]_vars

\* the snapshot at the history cursor after the step
SnapshotAfter == history'[index' + 1]

\* C19: when an undo- or redo-tagged update is processed and the best (resp.
\* match) of the snapshot at the history cursor is not an element of the
\* current best list (resp. match list), the wizard raises no error and
\* selects the first element of that list; this includes an undo arriving
\* while the match list is empty and the history holds snapshots of
\* clusters that an earlier merge deleted.
C19_StaleSnapshotFallsBack ==
    [][(/\ last_op'.name = "on_cluster"
        /\ last_op'.up.history \in {"undo", "redo"}
        /\ ~_has_finished(W)
        /\ best_list' # <<>>)
          => /\ (SnapshotAfter[1] # None /\ ~Contains(best_list', SnapshotAfter[1]))
                   => /\ ~raised'
                      /\ best' = best_list'[1]
             /\ (/\ SnapshotAfter[2] # None
                 /\ match_list' # <<>>
                 /\ ~Contains(match_list', SnapshotAfter[2]))
                   => /\ ~raised'
                      /\ match' = match_list'[1]]_vars

\* C20: in every reachable state, once unpin() has returned, match is
\* undefined and the match list is empty, also when an event had deleted the
\* current match and left the match list non-empty.
C20_UnpinEmptiesMatchList ==
    (last_op.name = "unpin" /\ ~raised)
        => /\ match = None
           /\ match_list = <<>>

\* the fields of the wizard object
WizardFields ==
    <<cluster_groups, best_list, match_list, best, match, history, index,
      quality, similarity>>

\* the cluster that the call pin(last_op'.arg) is about
PinArg == IF last_op'.arg = None THEN best ELSE last_op'.arg

\* C21: when the wizard is not finished and c is in the best list, pin(c)
\* changes nothing if the wizard is already pinned with best = c; otherwise
\* it ends with best = c, the match list equal to most_similar_clusters(c)
\* on the current group map, and match the first element of the match list.
\* pin() without argument behaves as pin(best).
C21_PinSelectsMatches ==
    [][(last_op'.name = "pin")
          => /\ (~_has_finished(W) /\ Contains(best_list, PinArg))
                   => /\ ~raised'
                      /\ IF match # None /\ best = PinArg
                         THEN UNCHANGED WizardFields
                         ELSE /\ best' = PinArg
                              /\ match_list' =
                                     most_similar_clusters(W, PinArg, NoMax).val
                              /\ match_list' # <<>>
                              /\ match' = match_list'[1]
                              /\ UNCHANGED <<cluster_groups, best_list, history, index>>
             /\ (last_op'.arg = None)
                   => /\ raised' = pin(W, best).err
                      /\ best' = pin(W, best).best
                      /\ match' = pin(W, best).match
                      /\ match_list' = pin(W, best).match_list
                      /\ best_list' = pin(W, best).best_list]_vars

\* pin(c) has moved a pinned wizard to another cluster c of a best list of
\* three clusters, one of them created by an update
C21_Witness ==
    /\ last_op.name = "pin"
    /\ last_op.arg # None
    /\ ~raised
    /\ best = last_op.arg
    /\ Len(best_list) = 3
    /\ best # best_list[1]
    /\ Len(match_list) = 2
    /\ match = match_list[1]
    /\ Len(history) > 1

TerminalNames == {"next_best", "previous_best", "next", "previous", "pin"}

\* C22: Finished is terminal for navigation: once best is defined and the
\* best list has at most one element, every call of next_best,
\* previous_best, next, previous or pin (with any argument) returns and
\* leaves best, match, the best list and the match list unchanged.
C22_FinishedIsTerminal ==
    [][(_has_finished(W) /\ last_op'.name \in TerminalNames)
          => /\ ~raised'
             /\ UNCHANGED <<best, match, best_list, match_list>>]_vars

\* pin(c) was called on a finished wizard that an update had left pinned on
\* its only cluster, with a cluster c that is not that one
C22_Witness ==
    /\ last_op.name = "pin"
    /\ last_op.arg # None
    /\ last_op.arg # best
    /\ best # None
    /\ Len(best_list) = 1
    /\ match # None
    /\ updates_left = 0

\* C23: next_match() while pinned with a match list of at most one entry
\* has exactly the effect of next_best(): best advances to its successor in
\* the best list and the match list is rebuilt for it.  With a match list
\* of two or more entries it leaves best and the match list unchanged and
\* moves match to its successor in the match list, staying put when match
\* is already the last element.
C23_NextMatchDelegates ==
    [][(last_op'.name = "next_match" /\ match # None)
          => IF Len(match_list) <= 1
             THEN /\ raised' = next_best(W).err
                  /\ best' = next_best(W).best
                  /\ match' = next_best(W).match
                  /\ best_list' = next_best(W).best_list
                  /\ match_list' = next_best(W).match_list
                  /\ ~raised'
                  /\ ~_has_finished(W)
                       => /\ best' = Successor(best_list, best)
                          /\ match_list' = most_similar_clusters(W, best', NoMax).val
             ELSE /\ ~raised'
                  /\ best' = best
                  /\ match_list' = match_list
                  /\ best_list' = best_list
                  /\ match' = Successor(match_list, match)]_vars

\* next_match() on a wizard pinned with a single match has moved best to the
\* second cluster of the best list and rebuilt the match list for it
C23_Witness ==
    /\ last_op.name = "next_match"
    /\ ~raised
    /\ Len(best_list) = 2
    /\ best = best_list[2]
    /\ match_list = <<best_list[1]>>
    /\ match = best_list[1]

\* C24: after next_best() or previous_best() in a pinned state that is not
\* finished, the match list is most_similar_clusters(new best) and match is
\* its first element; in an unpinned state the same calls leave match
\* undefined and the match list unchanged.
C24_BestMoveRebuildsMatches ==
    [][(last_op'.name \in {"next_best", "previous_best"})
          => /\ (match # None /\ ~_has_finished(W))
                   => /\ ~raised'
                      /\ match_list' = most_similar_clusters(W, best', NoMax).val
                      /\ match_list' # <<>>
                      /\ match' = match_list'[1]
             /\ (match = None)
                   => /\ match' = None
                      /\ match_list' = match_list]_vars

\* previous_best() has moved a wizard pinned on a cluster created by an
\* update back to the head of its best list, with a new match list
C24_Witness ==
    /\ last_op.name = "previous_best"
    /\ ~raised
    /\ Len(history) > 1
    /\ Len(best_list) = 3
    /\ best = best_list[1]
    /\ match # None
    /\ Len(match_list) = 2
    /\ match = match_list[1]
    /\ match_list[2] > InitClusters

\* the rank of a group in a match list: unsorted and good are one class
MixedRank(group) == IF group = "ignored" THEN 1 ELSE 0

\* the ids of `list` run through the unsorted-or-good ids and then the
\* ignored ids, each class by descending similarity to `cluster`
RankedBySimilarity(list, cluster) ==
    \A i, j \in 1 .. Len(list) :
        i < j =>
            /\ MixedRank(_group(W, list[i])) <= MixedRank(_group(W, list[j]))
            /\ MixedRank(_group(W, list[i])) = MixedRank(_group(W, list[j]))
                   => SimilarityValue(similarity, cluster, list[i])
                          >= SimilarityValue(similarity, cluster, list[j])

\* C25: for every cluster set, group assignment and similarity function,
\* most_similar_clusters(c) never contains c, contains every other known
\* cluster when n_max is unset or 0, and lists the unsorted-or-good ids by
\* descending similarity (the two groups interleaved) and then the ignored
\* ids by descending similarity; it changes no wizard state.
C25_MostSimilarRanking ==
    [][(/\ last_op'.name = "most_similar_clusters"
        /\ last_op'.arg # None
        /\ similarity # "none")
          => LET c == last_op'.arg
                 result == most_similar_clusters(W, c, last_op'.n_max).val
             IN  /\ ~raised'
                 /\ UNCHANGED WizardFields
                 /\ ~Contains(result, c)
                 /\ Len(result) = Cardinality(Range(result))
                 /\ Range(result) \subseteq DOMAIN cluster_groups
                 /\ last_op'.n_max \in {NoMax, 0}
                        => Range(result) = DOMAIN cluster_groups \ {c}
                 /\ RankedBySimilarity(result, c)]_vars

\* most_similar_clusters(1) on three clusters: the good cluster 2, nearer to
\* 1, is listed before the unsorted cluster 3
C25_Witness ==
    /\ last_op.name = "most_similar_clusters"
    /\ last_op.arg = 1
    /\ last_op.n_max = NoMax
    /\ ~raised
    /\ similarity = "near"
    /\ DOMAIN cluster_groups = 1 .. 3
    /\ cluster_groups[2] = "good"
    /\ cluster_groups[3] = "unsorted"
    /\ most_similar_clusters(W, 1, NoMax).val = <<2, 3>>

\* position of best in the best list, counted from 0 as list.index does
BestPosition == IndexOf(best_list, best) - 1

\* C26: the best-progress value is the position of best in the best list
\* divided by the length of the best list, as an integer percentage, and is
\* 100 percent when the best list has length 1; the labeled-progress value
\* is the number of good or ignored ids of the best list divided by the
\* number of known clusters, as an integer percentage.
C26_ProgressValues ==
    (last_op.name = "_repr_html_" /\ Contains(best_list, best))
        => /\ ~raised
           /\ _best_progress(W).val =
                  IF Len(best_list) = 1 THEN 100
                  ELSE (100 * BestPosition) \div Len(best_list)
           /\ _match_progress(W).val =
                  (100 * n_processed(W)) \div n_clusters(W)

\* C27: an update processed before start(), while the best list is empty,
\* raises no error and changes only the cluster-group map: best, match, the
\* best list, the match list and the history (contents and cursor) are
\* unchanged.  More generally, an update processed while the best list or
\* the match list is empty appends no snapshot to the history.
C27_DegradedUpdateKeepsHistory ==
    [][(last_op'.name = "on_cluster")
          => /\ (best_list = <<>>)
                   => /\ ~raised'
                      /\ UNCHANGED <<best, match, best_list, match_list,
                                     history, index>>
             /\ (best_list = <<>> \/ match_list = <<>>)
                   => history' = history]_vars

\* a merge was processed before start(): the group map holds the new
\* cluster and the wizard has still nothing selected
C27_Witness ==
    /\ last_op.name = "on_cluster"
    /\ last_op.up.description = "merge"
    /\ last_op.up.history = "none"
    /\ ~raised
    /\ last_op.up.added[1] \in DOMAIN cluster_groups
    /\ Cardinality(DOMAIN cluster_groups) = 2
    /\ best_list = <<>>
    /\ best = None
    /\ history = << <<None, None>> >>

\* C28: in every reachable state the current best is not an element of the
\* match list, also after on_cluster appended the added clusters to the
\* match list and then selected added[0] as best.
C28_BestNotInMatchList ==
    (best # None) => ~Contains(match_list, best)

\* the update is well formed for the wizard: every added id is new and has a
\* parent in the group map, every deleted id is known
WellFormed(up) ==
    /\ Range(up.added) \cap DOMAIN cluster_groups = {}
    /\ \A i \in 1 .. Len(up.added) :
           \E k \in 1 .. Len(up.descendants) :
               /\ up.descendants[k][2] = up.added[i]
               /\ up.descendants[k][1] \in DOMAIN cluster_groups
    /\ Range(up.deleted) \subseteq DOMAIN cluster_groups
    /\ Range(up.metadata_changed) \subseteq DOMAIN cluster_groups

\* the best list of w has no duplicate and holds exactly the known clusters
Complete(w) ==
    /\ Len(w.best_list) = Cardinality(Range(w.best_list))
    /\ Range(w.best_list) = DOMAIN w.cluster_groups

\* C29: after start() on a non-empty cluster set, following any sequence of
\* navigation calls and well-formed updates, the best list has no duplicate
\* and its set of ids is the key set of the cluster-group map: start()
\* makes the best list complete, and every later call keeps it complete.
C29_BestListIsComplete ==
    [][/\ (last_op'.name = "start" /\ DOMAIN cluster_groups # {})
             => Complete(WAfter)
       /\ (Complete(W) /\ (last_op'.name = "on_cluster" => WellFormed(last_op'.up)))
             => Complete(WAfter)]_vars

\* after start() and pin(), an assign has split a cluster into two new ones:
\* the best list holds them and the two clusters left, and no other id
C29_Witness ==
    /\ last_op.name = "on_cluster"
    /\ last_op.up.description = "assign"
    /\ last_op.up.history = "none"
    /\ Len(last_op.up.added) = 2
    /\ ~raised
    /\ Len(history) > 1
    /\ Len(best_list) = 4
    /\ Range(last_op.up.added) \subseteq Range(best_list)
    /\ Complete(W)

\* the wizard w when its next call begins: the exception of the last call
\* is over
Returned(w) == [w EXCEPT !.err = FALSE]

\* the update that redoes the action just done
RedoOfStep == RedoUpdate(undo_stack'[undo_pos'])

\* the wizard after the action just done has been undone
Undone == Returned(on_cluster(WAfter, UndoOfStep))

\* ... and redone
UndoneAndRedone == on_cluster(Undone, RedoOfStep)

\* the navigation calls tried between the action just done and a second one
Between == {"none", "unpin", "pin", "next_best"}

\* the wizard w after one of these calls
Navigated(w, call) ==
    Returned(IF call = "unpin" THEN unpin(w)
             ELSE IF call = "pin" THEN pin(w, None)
             ELSE IF call = "next_best" THEN next_best(w)
             ELSE w)

\* the second actions tried on the wizard w, as entries of the command
\* stack: the merge of two clusters, the move of a cluster to the good ones
SecondActions(w) ==
    {[up |-> MergeUpdate(parents, next_id'), old_value |-> "unsorted"] :
         parents \in {s \in Selections(DOMAIN w.cluster_groups, MaxSelected) :
                          Len(s) = 2}}
    \cup {[up |-> MetadataUpdate(cluster, "good"),
           old_value |-> w.cluster_groups[cluster]] :
              cluster \in DOMAIN w.cluster_groups}

\* the wizard w after the action `second`
SecondDone(w, second) == Returned(on_cluster(w, second.up))

\* ... after `second` and then the action just done have been undone
TwiceUndone(w, second) ==
    Returned(on_cluster(
        Returned(on_cluster(SecondDone(w, second), UndoUpdate(second))),
        UndoOfStep))

\* ... after the action just done has been redone
OnceRedone(w, second) == Returned(on_cluster(TwiceUndone(w, second), RedoOfStep))

\* ... and after `second` has been redone
TwiceRedone(w, second) == on_cluster(OnceRedone(w, second), RedoUpdate(second))

\* C30: an action update, followed by the update that undoes it, followed by
\* the update that redoes it, leaves <<best, match>> equal to the pair that
\* held immediately after the action update; this also holds for each redo
\* when two consecutive actions (with navigation between them) were both
\* undone and are redone one at a time.
C30_RedoRestoresSelection ==
    [][(FreshUpdateStep /\ last_op'.up.description # "none")
          => /\ <<UndoneAndRedone.best, UndoneAndRedone.match>> = <<best', match'>>
             /\ \A call \in Between :
                    \A second \in SecondActions(Navigated(WAfter, call)) :
                        /\ <<OnceRedone(Navigated(WAfter, call), second).best,
                              OnceRedone(Navigated(WAfter, call), second).match>>
                               = <<best', match'>>
                        /\ <<TwiceRedone(Navigated(WAfter, call), second).best,
                              TwiceRedone(Navigated(WAfter, call), second).match>>
                               = <<SecondDone(Navigated(WAfter, call), second).best,
                                   SecondDone(Navigated(WAfter, call), second).match>>]_vars

\* C31: from any started state, if only next() is called repeatedly (no
\* update, no other call), then after finitely many calls the wizard is in
\* a state that further next() calls leave unchanged; next() never cycles
\* back to an earlier selection.
C31_NextSettles ==
    (last_op.name = "next" /\ Started) ~> (last_op.name = "next" /\ Settled)

\* repeated next() has walked a match list of two clusters, created by an
\* update, up to its last element and stays there
C31_Witness ==
    /\ last_op.name = "next"
    /\ ~raised
    /\ Settled
    /\ Len(history) > 1
    /\ Len(best_list) = 3
    /\ Len(match_list) = 2
    /\ match = match_list[2]

\* every known cluster is good or ignored
AllLabeled ==
    \A c \in DOMAIN cluster_groups : cluster_groups[c] \in {"good", "ignored"}

\* C32: in every reachable state with best defined, both progress values
\* computed for the panel are integers between 0 and 100 inclusive, the
\* labeled-progress value being 100 exactly when every known cluster is
\* good or ignored.
C32_ProgressWithinRange ==
    (best # None)
        => /\ ~_best_progress(W).err
           /\ _best_progress(W).val \in 0 .. 100
           /\ _match_progress(W) \in 0 .. 100
           /\ (_match_progress(W) = 100) <=> AllLabeled
====
